---- MODULE Spec2Model ----
\* Model of DogAICreator: the two video-generation backend clients
\* (services/kling.py, services/gemini.py) and the generate-button handler of
\* app.py.  One call of generate_video is a small state machine whose steps are
\* cut at the network / SDK calls; the backend's answers, the progress
\* callback's behaviour and the caller's arguments are nondeterministic inputs.
EXTENDS Integers, Sequences, FiniteSets, TLC

VARIABLES
    pc,          \* position of the running call ("idle", "k_*", "g_*", "done")
    engine,      \* which client runs: "kling", "gemini" or "none"
    via,         \* "direct" (a caller of the facade) or "app" (the button handler)
    app,         \* the widget / session values read by the last button click
    args,        \* the arguments of the running generate_video call
    loc,         \* the locals of the running call
    result,      \* the returned triple (meaningful when pc = "done")
    escaped,     \* an exception left generate_video
    hist,        \* observation of the call: requests issued, progress reported
    creds,       \* the credential material held by the two client instances
    built        \* the enhanced prompt an earlier call built, and from what

vars == <<pc, engine, via, app, args, loc, result, escaped, hist, creds, built>>

-----------------------------------------------------------------------------
\* Bounds of the exploration

MaxPromptLen == 2      \* longest prompt text tried
MaxDuration == 11      \* largest duration argument tried
MaxLatency == 300      \* longest time (s) one operation refresh may take

\* Program constants
max_polls == 60                 \* kling.py:129
PollSleep == 10                 \* kling.py:134, gemini.py:123
DownloadTries == 3              \* kling.py:172
MinVideoBytes == 10240          \* kling.py:176
GENERATION_TIMEOUT == 300       \* gemini.py:35
MAX_FILE_SIZE == 10485760       \* gemini.py:34
MinImageBytes == 100            \* gemini.py:65
ALLOWED_DURATIONS == <<5, 10>>  \* kling.py:25

-----------------------------------------------------------------------------
\* Values

\* Text is a sequence of characters; " " stands for any whitespace character.
Chars == {" ", "a"}
RECURSIVE SeqsUpTo(_, _)
SeqsUpTo(S, n) ==
    IF n = 0 THEN {<<>>}
    ELSE LET shorter == SeqsUpTo(S, n - 1)
         IN  shorter \cup {Append(s, c) : s \in {t \in shorter : Len(t) = n - 1}, c \in S}
Texts == SeqsUpTo(Chars, MaxPromptLen)

\* A str-or-None argument.
NonePrompt == [none |-> TRUE, s |-> <<>>]
Str(s) == [none |-> FALSE, s |-> s]
Prompts == {NonePrompt} \cup {Str(s) : s \in Texts}

\* str.strip(): drop leading and trailing whitespace.
RECURSIVE LStrip(_)
LStrip(s) == IF s # <<>> /\ Head(s) = " " THEN LStrip(Tail(s)) ELSE s
RECURSIVE RStrip(_)
RStrip(s) ==
    IF s # <<>> /\ s[Len(s)] = " " THEN RStrip(SubSeq(s, 1, Len(s) - 1)) ELSE s
NoStrip(s) == s
Strip(s) == RStrip(LStrip(s))

\* str(int) for the non-negative integers: the decimal digits.
RECURSIVE IntToStr(_)
IntToStr(n) == IF n < 10 THEN <<n>> ELSE Append(IntToStr(n \div 10), n % 10)

\* bytes-or-None image: its length and the format its first bytes announce.
NoneImage == [none |-> TRUE, size |-> 0, magic |-> "none"]
Image(size, magic) == [none |-> FALSE, size |-> size, magic |-> magic]

\* bytes-or-None video.
NoneBytes == [none |-> TRUE, len |-> 0]
Bytes(n) == [none |-> FALSE, len |-> n]

\* The returned triple (success, message, video_bytes).  A message is its
\* fixed text plus the interpolated detail.
Msg(text, detail) == [text |-> text, detail |-> detail]
NoDetail == <<>>
Triple(ok, msg, bytes) == [success |-> ok, message |-> msg, video_bytes |-> bytes]
Failure(msg) == Triple(FALSE, msg, NoneBytes)
NoResult == Triple(FALSE, Msg("", NoDetail), NoneBytes)

\* Exceptions: the Python class, str(err) as a sequence of words, and the
\* attributes response.text and body some SDK errors carry (<<>> when absent).
ExcWith(type, text, response_text, body) ==
    [type |-> type, text |-> text, response_text |-> response_text, body |-> body]
Exc(type, text) == ExcWith(type, text, <<>>, <<>>)
NoError == Exc("none", <<>>)

\* Progress fractions are kept in thousandths.
HistInit ==
    [ submits      |-> 0,       \* submission requests issued
      polls        |-> 0,       \* status polls / operation refreshes issued
      downloads    |-> 0,       \* download requests issued
      raised       |-> FALSE,   \* a request, SDK call, callback or argument raised
      lastProg     |-> 0,       \* last fraction given to progress_callback
      progMono     |-> TRUE,    \* fractions so far were non-decreasing
      progInRange  |-> TRUE,    \* fractions so far were within [0, 1]
      checkpoints  |-> <<>>,    \* the fractions a Gemini call reported, repeats dropped
      auth         |-> <<>>,    \* the credentials the last authenticated request carried
      pollsProcessing |-> TRUE, \* every poll so far answered 200 'processing'
      pollFailed   |-> FALSE,   \* a status poll / operation refresh itself raised
      sent         |-> <<>>,    \* the (model, config) of each Gemini submission
      errors       |-> <<>>,    \* what each turned-down Gemini submission raised
      terminal     |-> "",      \* the terminal state a poll observed, "" when none did
      polledAfterTerminal |-> FALSE, \* a poll was issued after a terminal state was seen
      firstDownloadOk |-> FALSE, \* the first download response was acceptable
      accepted     |-> <<>>,    \* the body lengths of the acceptable download responses
      submitted    |-> [raises |-> FALSE, status_code |-> 0, json |-> FALSE,
                        code |-> 0, task_id |-> ""]  \* the answer to Kling's submission
    ]

Report(h, frac) ==
    [h EXCEPT !.lastProg = frac, !.progMono = h.progMono /\ frac >= h.lastProg,
              !.progInRange = h.progInRange /\ frac >= 0 /\ frac <= 1000,
              !.checkpoints =
                  IF engine = "gemini" /\ (@ = <<>> \/ @[Len(@)] # frac)
                  THEN Append(@, frac) ELSE @]

\* progress_callback: the argument is None ("none"), a callable that returns
\* ("ok"), or a callable that may raise at any invocation ("raises").
Callbacks == {"none", "ok", "raises"}
DirectCallbacks == {"none", "raises"}
HasCb == args.cb # "none"
CbRaises == args.cb = "raises"
\* h after `if progress_callback: progress_callback(frac, ...)` returned
AfterCb(h, frac) == IF HasCb THEN Report(h, frac) ELSE h
CallbackError == Exc("Exception", <<"callback">>)

-----------------------------------------------------------------------------
\* Arguments and locals of a call

\* Locals of both clients in one record (a call uses the part of its client).
NoPollData ==
    [ present |-> FALSE, task_status |-> "", task_status_msg |-> "",
      task_result |-> "absent", videos |-> <<>> ]
NoOperation == [present |-> FALSE, done |-> FALSE, error |-> "", response |-> "none"]
NoBody ==
    [ model_name |-> "", image |-> "", prompt |-> <<>>, duration |-> <<>>,
      aspect_ratio |-> "", mode |-> "", enable_audio |-> FALSE ]
LocInit ==
    [ user_prompt     |-> <<>>,
      prompt_enhanced |-> <<>>,
      request_body    |-> NoBody,      \* kling.py:97
      task_id         |-> "",
      poll_count      |-> 0,
      poll_data       |-> NoPollData,
      dl_i            |-> 0,           \* the download loop's i
      dl_status       |-> 0,           \* dl_response.status_code
      mime_type       |-> "",          \* gemini.py:147
      selected_model  |-> "",          \* gemini.py:183
      fallback_model  |-> "",          \* gemini.py:184
      attempts        |-> <<>>,        \* gemini.py:188
      idx             |-> 0,           \* the submission loop's idx
      last_error      |-> NoError,     \* gemini.py:195
      operation       |-> NoOperation, \* gemini.py:194
      elapsed         |-> 0,           \* time.time() - started_at
      video_bytes     |-> NoneBytes    \* gemini.py:231
    ]

ArgsInit ==
    [ image_bytes |-> NoneImage, prompt |-> NonePrompt, cb |-> "none",
      model |-> "", duration |-> 0, aspect_ratio |-> "", resolution |-> "",
      mode_type |-> "speech" ]

Modes == {"speech", "dance"}

-----------------------------------------------------------------------------
\* Leaving generate_video

\* return r
Return(r, h) ==
    /\ pc' = "done"
    /\ result' = r
    /\ escaped' = FALSE
    /\ hist' = h

\* The outcome of an exception raised inside a call: the handler's triple, or
\* the exception leaving the call.
Caught(r) == [escaped |-> FALSE, result |-> r]
Uncaught == [escaped |-> TRUE, result |-> NoResult]

Leave(outcome, h) ==
    /\ pc' = "done"
    /\ result' = outcome.result
    /\ escaped' = outcome.escaped
    /\ hist' = h

\* h once a request, an SDK call, a callback or a bad argument has raised
Raised(h) == [h EXCEPT !.raised = TRUE]

-----------------------------------------------------------------------------
\* KlingService.generate_video (services/kling.py)

\* except Exception as e: return False, f"...: {str(e)}", None
KlingExceptNoHandler(e) == Uncaught
KlingExcept(e) == Caught(Failure(Msg("kling: error occurred", e.text)))

KRaise(e, h) == Leave(KlingExcept(e), Raised(h))

\* _generate_jwt_token: the token is made of the access key (iss) and signed
\* with the secret key; _get_headers puts it into the Authorization header.
GenerateJwtToken(c) == <<c.access_key, c.secret_key>>
GetHeadersUnsigned(c) == <<"Bearer", c.access_key>>
GetHeaders(c) == <<"Bearer">> \o GenerateJwtToken(c)

\* `if not user_prompt` on the stripped prompt
KlingPromptRejected(user_prompt, mode_type) == user_prompt = <<>>

\* The two prompt templates; the fixed wording is one leading token.
KlingEnhanceRemembering(mode_type, user_prompt) ==
    IF built.present
    THEN <<"KLING_TEMPLATE again:">> \o user_prompt
    ELSE <<"KLING_TEMPLATE first:">> \o user_prompt
KlingEnhance(mode_type, user_prompt) ==
    IF mode_type = "dance"
    THEN <<"KLING_DANCE_TEMPLATE USER_PROMPT:">> \o user_prompt
    ELSE <<"KLING_SPEECH_TEMPLATE Dialogue:">> \o user_prompt

\* if duration not in ALLOWED_DURATIONS: duration = ALLOWED_DURATIONS[0]
InAllowed(d) == \E i \in DOMAIN ALLOWED_DURATIONS : ALLOWED_DURATIONS[i] = d
ClampDurationNone(d) == d
ClampDuration(d) == IF InAllowed(d) THEN d ELSE ALLOWED_DURATIONS[1]

KlingBody(a, prompt_enhanced) ==
    [ model_name   |-> a.model,
      image        |-> "base64",
      prompt       |-> prompt_enhanced,
      duration     |-> IntToStr(ClampDuration(a.duration)),
      aspect_ratio |-> a.aspect_ratio,
      mode         |-> "pro",
      enable_audio |-> TRUE ]

\* Lines 61-105: everything before the submission request.
K_Start ==
    /\ pc = "k_start"
    /\ UNCHANGED <<engine, via, app, args, creds, built>>
    /\ \/ /\ CbRaises                       \* progress_callback(0.05) raises
          /\ KRaise(CallbackError, Report(hist, 50))
          /\ UNCHANGED loc
       \/ /\ args.prompt.none                \* None.strip(): AttributeError
          /\ KRaise(Exc("AttributeError", <<"strip">>), AfterCb(hist, 50))
          /\ UNCHANGED loc
       \/ /\ ~args.prompt.none
          /\ LET user_prompt == Strip(args.prompt.s)
                 enhanced == KlingEnhance(args.mode_type, user_prompt)
                 h1 == AfterCb(hist, 50)
                 h2 == AfterCb(h1, 100)
             IN  IF KlingPromptRejected(user_prompt, args.mode_type)
                 THEN /\ Return(Failure(Msg("kling: prompt is empty", NoDetail)), h1)
                      /\ loc' = [loc EXCEPT !.user_prompt = user_prompt]
                 ELSE \/ /\ CbRaises         \* progress_callback(0.10) raises
                         /\ KRaise(CallbackError, h2)
                         /\ loc' = [loc EXCEPT !.user_prompt = user_prompt,
                                               !.prompt_enhanced = enhanced]
                      \/ /\ args.image_bytes.none   \* b64encode(None): TypeError
                         /\ KRaise(Exc("TypeError", <<"b64encode">>), h2)
                         /\ loc' = [loc EXCEPT !.user_prompt = user_prompt,
                                               !.prompt_enhanced = enhanced]
                      \/ /\ ~args.image_bytes.none
                         /\ pc' = "k_submit"
                         /\ hist' = h2
                         /\ loc' = [loc EXCEPT !.user_prompt = user_prompt,
                                               !.prompt_enhanced = enhanced,
                                               !.request_body = KlingBody(args, enhanced)]
                         /\ UNCHANGED <<result, escaped>>

\* The answer to the submission POST (lines 107-123): the request raises, or a
\* response arrives whose body may or may not be JSON.
SubmitAnswers ==
    {[raises |-> TRUE, status_code |-> 0, json |-> FALSE, code |-> 0, task_id |-> ""]}
    \cup [raises : {FALSE}, status_code : {200, 500}, json : BOOLEAN,
          code : {0, 1001}, task_id : {"", "task1"}]

\* `if not task_id` (line 122)
TaskIdMissingNever(task_id) == FALSE
TaskIdMissing(task_id) == task_id = ""

\* min(0.15 + poll_count * 0.03, max_progress), in thousandths
Min(a, b) == IF a <= b THEN a ELSE b
PollProgressUncapped(poll_count) == 150 + poll_count * 30
PollProgress(poll_count) == Min(150 + poll_count * 30, 750)

\* Lines 107-126: the submission request and its checks.
K_Submit ==
    /\ pc = "k_submit"
    /\ UNCHANGED <<engine, via, app, args, creds, built>>
    /\ \E r \in SubmitAnswers :
        LET h == [hist EXCEPT !.submits = @ + 1, !.submitted = r,
                              !.auth = GetHeaders(creds.kling)] IN
        IF r.raises
        THEN KRaise(Exc("RequestException", <<"post">>), h) /\ UNCHANGED loc
        ELSE IF r.status_code # 200
        THEN /\ Return(Failure(Msg("kling: API request failed", <<r.status_code>>)), h)
             /\ UNCHANGED loc
        ELSE IF ~r.json
        THEN KRaise(Exc("JSONDecodeError", <<"json">>), h) /\ UNCHANGED loc
        ELSE IF r.code # 0
        THEN /\ Return(Failure(Msg("kling: API error", <<r.code>>)), h)
             /\ UNCHANGED loc
        ELSE IF TaskIdMissing(r.task_id)
        THEN /\ Return(Failure(Msg("kling: Task ID missing", NoDetail)), h)
             /\ UNCHANGED loc
        ELSE \/ /\ CbRaises                    \* progress_callback(0.15) raises
                /\ KRaise(CallbackError, Report(h, 150))
                /\ loc' = [loc EXCEPT !.task_id = r.task_id]
             \/ /\ pc' = "k_poll"
                /\ hist' = AfterCb(h, 150)
                /\ loc' = [loc EXCEPT !.task_id = r.task_id, !.poll_count = 0,
                                      !.poll_data = NoPollData]
                /\ UNCHANGED <<result, escaped>>

\* The task result a status answer carries: the list found by
\* data.task_result.videos, each entry with its url ("" when there is none).
VideoLists == {<<>>, <<[url |-> ""]>>, <<[url |-> "http://video"]>>}
\* What data.task_result is: a missing key ("absent"), JSON null ("null"), a
\* block without the videos key ("no_videos"), with videos null
\* ("null_videos"), or with a videos list ("videos").
ResultBlocks == {"absent", "null", "no_videos", "null_videos", "videos"}

\* The answer to a status poll (lines 137-146).
PollAnswers ==
    {[raises |-> TRUE, status_code |-> 0, task_status |-> "", task_status_msg |-> "",
      task_result |-> "absent", videos |-> <<>>]}
    \cup {[raises |-> FALSE, status_code |-> 500, task_status |-> "",
           task_status_msg |-> "", task_result |-> "absent", videos |-> <<>>]}
    \cup {[raises |-> FALSE, status_code |-> 200, task_status |-> "processing",
           task_status_msg |-> "", task_result |-> "absent", videos |-> <<>>]}
    \cup {[raises |-> FALSE, status_code |-> 200, task_status |-> "failed",
           task_status_msg |-> "nsfw", task_result |-> "absent", videos |-> <<>>]}
    \cup [raises : {FALSE}, status_code : {200}, task_status : {"succeed"},
          task_status_msg : {""}, task_result : {"videos"}, videos : VideoLists]
    \cup [raises : {FALSE}, status_code : {200}, task_status : {"succeed"},
          task_status_msg : {""}, task_result : ResultBlocks \ {"videos"},
          videos : {<<>>}]

\* Lines 153-157: what the loop does with the task_status of a 200 answer.
PollOutcomeIgnoreFailed(task_status) ==
    IF task_status = "succeed" THEN "break" ELSE "continue"
PollOutcome(task_status) ==
    IF task_status = "succeed" THEN "break"
    ELSE IF task_status = "failed" THEN "return"
    ELSE "continue"

\* while poll_count < max_polls
PollBudgetLeftOneMore(poll_count) == poll_count <= max_polls
PollBudgetLeft(poll_count) == poll_count < max_polls

\* One iteration of the poll loop (lines 133-157).
K_Poll ==
    /\ pc = "k_poll"
    /\ PollBudgetLeft(loc.poll_count)
    /\ UNCHANGED <<engine, via, app, args, creds, built>>
    /\ \E r \in PollAnswers :
        LET n == loc.poll_count + 1
            seen == IF r.raises THEN "raised"
                    ELSE IF r.status_code # 200 THEN "not200" ELSE r.task_status
            h == [hist EXCEPT !.polls = @ + 1,
                              !.auth = GetHeaders(creds.kling),
                              !.pollsProcessing = @ /\ seen = "processing",
                              !.pollFailed = @ \/ r.raises,
                              !.terminal = IF seen \in {"succeed", "failed"}
                                           THEN seen ELSE @,
                              !.polledAfterTerminal = @ \/ hist.terminal # ""]
            data == [present |-> TRUE, task_status |-> r.task_status,
                     task_status_msg |-> r.task_status_msg,
                     task_result |-> r.task_result, videos |-> r.videos]
        IN
        IF r.raises
        THEN /\ KRaise(Exc("RequestException", <<"get">>), h)
             /\ loc' = [loc EXCEPT !.poll_count = n]
        ELSE IF r.status_code # 200
        THEN /\ pc' = "k_poll"                  \* continue
             /\ hist' = h
             /\ loc' = [loc EXCEPT !.poll_count = n]
             /\ UNCHANGED <<result, escaped>>
        ELSE \/ /\ CbRaises
                /\ KRaise(CallbackError, Report(h, PollProgress(n)))
                /\ loc' = [loc EXCEPT !.poll_count = n, !.poll_data = data]
             \/ /\ loc' = [loc EXCEPT !.poll_count = n, !.poll_data = data]
                /\ LET h2 == AfterCb(h, PollProgress(n)) IN
                   IF PollOutcome(r.task_status) = "break"
                   THEN pc' = "k_extract" /\ hist' = h2 /\ UNCHANGED <<result, escaped>>
                   ELSE IF PollOutcome(r.task_status) = "return"
                   THEN Return(Failure(Msg("kling: generation failed",
                                           <<r.task_status_msg>>)), h2)
                   ELSE pc' = "k_poll" /\ hist' = h2 /\ UNCHANGED <<result, escaped>>

\* The while loop's else branch (line 159): the budget ran out.
K_Timeout ==
    /\ pc = "k_poll"
    /\ ~PollBudgetLeft(loc.poll_count)
    /\ Return(Failure(Msg("kling: generation timed out (10 min)", NoDetail)), hist)
    /\ UNCHANGED <<engine, via, app, args, loc, creds, built>>

\* poll_data.get("data", {}).get("task_result", {}).get("videos", []) if
\* poll_data else [] (line 164); a null task_result has no get.
TaskVideos(poll_data) ==
    IF poll_data.present /\ poll_data.task_result = "videos" THEN poll_data.videos ELSE <<>>

\* `if not video_url` (line 169)
UrlMissingNever(video) == FALSE
UrlMissing(video) == video.url = ""

\* Lines 161-170: the first video's url out of the last status answer.
K_Extract ==
    /\ pc = "k_extract"
    /\ UNCHANGED <<engine, via, app, args, loc, creds, built>>
    /\ \/ /\ CbRaises
          /\ KRaise(CallbackError, Report(hist, 800))
       \/ LET h == AfterCb(hist, 800)
              videos == TaskVideos(loc.poll_data)
          IN  IF loc.poll_data.present /\ loc.poll_data.task_result = "null"
              THEN KRaise(Exc("AttributeError", <<"get">>), h)
              ELSE IF videos = <<>>
              THEN Return(Failure(Msg("kling: no generated video found", NoDetail)), h)
              ELSE IF UrlMissing(videos[1])
              THEN Return(Failure(Msg("kling: no video URL found", NoDetail)), h)
              ELSE pc' = "k_download" /\ hist' = h /\ UNCHANGED <<result, escaped>>

\* The answer to the download GET (line 175).
DownloadAnswers ==
    {[raises |-> TRUE, status_code |-> 0, len |-> 0]}
    \cup [raises : {FALSE}, status_code : {200, 404},
          len : {0, MinVideoBytes, MinVideoBytes + 1, 2 * MinVideoBytes}]

\* dl_response.status_code == 200 and len(dl_response.content) > 10240
DownloadAcceptableAnySize(r) == r.status_code = 200
DownloadAcceptable(r) == r.status_code = 200 /\ r.len > MinVideoBytes

\* for i in range(3)
DownloadTriesLeftOneMore(i) == i <= DownloadTries
DownloadTriesLeft(i) == i < DownloadTries

\* One iteration of the download loop (lines 172-180).
K_Download ==
    /\ pc = "k_download"
    /\ DownloadTriesLeft(loc.dl_i)
    /\ UNCHANGED <<engine, via, app, args, creds, built>>
    /\ \/ /\ CbRaises
          /\ KRaise(CallbackError, Report(hist, 850 + loc.dl_i * 50))
          /\ UNCHANGED loc
       \/ \E r \in DownloadAnswers :
            LET h0 == AfterCb(hist, 850 + loc.dl_i * 50)
                h == [h0 EXCEPT !.downloads = @ + 1,
                                !.firstDownloadOk =
                                    IF hist.downloads = 0
                                    THEN ~r.raises /\ r.status_code = 200
                                         /\ r.len > MinVideoBytes
                                    ELSE @,
                                !.accepted =
                                    IF ~r.raises /\ r.status_code = 200
                                       /\ r.len > MinVideoBytes
                                    THEN Append(@, r.len) ELSE @]
            IN
            IF r.raises
            THEN KRaise(Exc("RequestException", <<"download">>), h) /\ UNCHANGED loc
            ELSE IF DownloadAcceptable(r)
            THEN \/ /\ CbRaises
                    /\ KRaise(CallbackError, Report(h, 1000))
                    /\ loc' = [loc EXCEPT !.dl_status = r.status_code]
                 \/ /\ Return(Triple(TRUE, Msg("kling: success", NoDetail), Bytes(r.len)),
                              AfterCb(h, 1000))
                    /\ loc' = [loc EXCEPT !.dl_status = r.status_code]
            ELSE /\ pc' = "k_download"
                 /\ hist' = h
                 /\ loc' = [loc EXCEPT !.dl_i = @ + 1, !.dl_status = r.status_code]
                 /\ UNCHANGED <<result, escaped>>

\* Line 182: the three tries are used up.
K_DownloadFailed ==
    /\ pc = "k_download"
    /\ ~DownloadTriesLeft(loc.dl_i)
    /\ Return(Failure(Msg("kling: video download failed", <<loc.dl_status>>)), hist)
    /\ UNCHANGED <<engine, via, app, args, loc, creds, built>>

-----------------------------------------------------------------------------
\* GeminiService.generate_video (services/gemini.py)

MODELS == {"veo-3.1-generate-preview", "veo-3.1-fast-generate-preview"}
SUPPORTED_IMAGE_TYPES == {"image/jpeg", "image/png", "image/webp"}

\* _guess_mime_type: PNG and RIFF/WEBP signatures, anything else is JPEG.
GuessMimeType(image) ==
    IF image.magic = "png" THEN "image/png"
    ELSE IF image.magic = "webp" THEN "image/webp"
    ELSE "image/jpeg"

\* validate_image: [valid, message]
ValidateImage(image, image_type) ==
    IF image.size > MAX_FILE_SIZE THEN [valid |-> FALSE, msg |-> "File size exceeds 10MB"]
    ELSE IF image_type \notin SUPPORTED_IMAGE_TYPES
    THEN [valid |-> FALSE, msg |-> "Unsupported file type"]
    ELSE IF image.size < MinImageBytes THEN [valid |-> FALSE, msg |-> "Invalid image file"]
    ELSE [valid |-> TRUE, msg |-> ""]

\* str.lower() on a word
Lower(w) == IF w = "Bad Request" THEN "bad request" ELSE w
\* _is_bad_request: "bad request" in msg or "400" in msg, msg = str(err).lower()
Contains(text, w) == \E i \in DOMAIN text : Lower(text[i]) = w
IsBadRequest(err) == Contains(err.text, "bad request") \/ Contains(err.text, "400")

\* _extract_error_detail: the non-empty parts joined by " | detail: "
RECURSIVE Join(_)
Join(parts) ==
    IF parts = <<>> THEN <<>>
    ELSE IF Len(parts) = 1 THEN parts[1]
    ELSE parts[1] \o <<" | detail: ">> \o Join(Tail(parts))
ExtractErrorDetail(err) ==
    Join(SelectSeq(<<err.text, err.response_text, err.body>>, LAMBDA d : d # <<>>))

\* self.client = genai.Client(api_key=self.api_key): what its requests carry
ClientAuth(c) == <<"api_key", c.api_key>>

\* except TimeoutError / except Exception (lines 241-245)
GeminiExcept(e) ==
    IF e.type = "TimeoutError"
    THEN Caught(Failure(Msg("Video generation timed out. Please try again.", NoDetail)))
    ELSE Caught(Failure(Msg("Error during video generation", ExtractErrorDetail(e))))

GRaise(e, h) == Leave(GeminiExcept(e), Raised(h))

\* What a raising progress callback may raise.
CallbackErrors == {CallbackError, Exc("TimeoutError", <<"callback">>)}

\* Lines 155-159: [rejected, user_prompt] for the stripped prompt.
GeminiPromptNoDefault(user_prompt, mode_type) ==
    [rejected |-> user_prompt = <<>>, user_prompt |-> user_prompt]
DefaultDance == <<"happy dance">>
GeminiPrompt(user_prompt, mode_type) ==
    IF user_prompt = <<>> /\ mode_type = "speech"
    THEN [rejected |-> TRUE, user_prompt |-> user_prompt]
    ELSE IF user_prompt = <<>> /\ mode_type = "dance"
    THEN [rejected |-> FALSE, user_prompt |-> DefaultDance]
    ELSE [rejected |-> FALSE, user_prompt |-> user_prompt]

GeminiEnhance(mode_type, user_prompt) ==
    IF mode_type = "dance"
    THEN <<"GEMINI_DANCE_TEMPLATE Dance style:">> \o user_prompt
    ELSE <<"GEMINI_SPEECH_TEMPLATE Dialogue:">> \o user_prompt

\* Lines 183-186.
SelectedModel(model) == IF model \in MODELS THEN model ELSE "veo-3.1-fast-generate-preview"
FallbackModelSame(selected) == selected
FallbackModel(selected) ==
    IF selected = "veo-3.1-fast-generate-preview"
    THEN "veo-3.1-generate-preview"
    ELSE "veo-3.1-fast-generate-preview"

\* _build_config: a key that is not set is "absent" (0 for the duration).
BuildConfig(duration, aspect_ratio, resolution, minimal) ==
    [ aspect_ratio |-> IF aspect_ratio \in {"16:9", "9:16", "1:1"}
                       THEN aspect_ratio ELSE "absent",
      duration_seconds |-> IF ~minimal /\ duration >= 1 /\ duration <= 8
                           THEN duration ELSE 0,
      resolution |-> IF ~minimal /\ resolution \in {"720p", "1080p"}
                     THEN resolution ELSE "absent" ]

\* Lines 188-192; in the minimal builds duration and resolution are None.
AttemptsFallbackFirst(a, selected, fallback) ==
    << [model |-> fallback, config |-> BuildConfig(0, a.aspect_ratio, "None", TRUE)],
       [model |-> selected, config |-> BuildConfig(0, a.aspect_ratio, "None", TRUE)],
       [model |-> selected,
        config |-> BuildConfig(a.duration, a.aspect_ratio, a.resolution, FALSE)] >>
Attempts(a, selected, fallback) ==
    << [model |-> selected,
        config |-> BuildConfig(a.duration, a.aspect_ratio, a.resolution, FALSE)],
       [model |-> selected, config |-> BuildConfig(0, a.aspect_ratio, "None", TRUE)],
       [model |-> fallback, config |-> BuildConfig(0, a.aspect_ratio, "None", TRUE)] >>

\* Lines 146-192: everything before the first submission.
G_Start ==
    /\ pc = "g_start"
    /\ UNCHANGED <<engine, via, app, args, creds, built>>
    /\ IF args.image_bytes.none
       THEN /\ GRaise(Exc("AttributeError", <<"startswith">>), hist)
            /\ UNCHANGED loc
       ELSE
       LET mime == GuessMimeType(args.image_bytes)
           v == ValidateImage(args.image_bytes, mime)
           stripped == IF args.prompt.none THEN <<>> ELSE Strip(args.prompt.s)
           p == GeminiPrompt(stripped, args.mode_type)
           enhanced == GeminiEnhance(args.mode_type, p.user_prompt)
           selected == SelectedModel(args.model)
           fallback == FallbackModel(selected)
           h1 == AfterCb(hist, 100)
           h2 == AfterCb(h1, 300)
           l1 == [loc EXCEPT !.mime_type = mime]
           l2 == [l1 EXCEPT !.user_prompt = p.user_prompt]
           l3 == [l2 EXCEPT !.prompt_enhanced = enhanced]
       IN
       IF ~v.valid
       THEN /\ Return(Failure(Msg("Image validation failed", <<v.msg>>)), hist)
            /\ loc' = l1
       ELSE
       \/ /\ CbRaises                        \* progress_callback(0.1) raises
          /\ \E e \in CallbackErrors : GRaise(e, Report(hist, 100))
          /\ loc' = l1
       \/ /\ p.rejected
          /\ Return(Failure(Msg("Please enter dialogue text.", NoDetail)), h1)
          /\ loc' = l2
       \/ /\ ~p.rejected
          /\ CbRaises                        \* progress_callback(0.3) raises
          /\ \E e \in CallbackErrors : GRaise(e, Report(h1, 300))
          /\ loc' = l3
       \/ /\ ~p.rejected
          /\ pc' = "g_submit"
          /\ hist' = h2
          /\ loc' = [l3 EXCEPT !.selected_model = selected,
                               !.fallback_model = fallback,
                               !.attempts = Attempts(args, selected, fallback),
                               !.idx = 0,
                               !.operation = NoOperation,
                               !.last_error = NoError]
          /\ UNCHANGED <<result, escaped>>

\* What client.models.generate_videos may raise.
SubmitErrors ==
    { ExcWith("ClientError", <<"400", "INVALID_ARGUMENT">>, <<"unsupported config">>, <<>>),
      Exc("ClientError", <<"Bad Request">>),
      Exc("ServerError", <<"500", "INTERNAL">>),
      Exc("TimeoutError", <<"timed out">>) }

\* An operation handle as the SDK returns it: done, error, and what
\* response.generated_videos holds ("none": no response; "empty"; "video").
Operation(done, error, response) ==
    [present |-> TRUE, done |-> done, error |-> error, response |-> response]
Operations ==
    {Operation(FALSE, "", "none")}
    \cup {Operation(TRUE, "", r) : r \in {"none", "empty", "video"}}
    \cup {Operation(TRUE, "quota exceeded", r) : r \in {"none", "video"}}

\* last_error = err (line 206)
LastErrorKeepFirst(last_error, err) == IF last_error = NoError THEN err ELSE last_error
LastError(last_error, err) == err

\* for idx, ... in enumerate(attempts)
SubmitAttemptsLeft(l) == l.idx < Len(l.attempts)

\* One pass of the submission loop (lines 196-210) and, when the submission is
\* accepted, lines 212-217.
G_Submit ==
    /\ pc = "g_submit"
    /\ SubmitAttemptsLeft(loc)
    /\ UNCHANGED <<engine, via, app, args, creds, built>>
    /\ LET h == [hist EXCEPT !.submits = @ + 1,
                             !.auth = ClientAuth(creds.gemini),
                             !.sent = Append(@, loc.attempts[loc.idx + 1])] IN
       \/ \E op \in Operations :
            LET l == [loc EXCEPT !.operation = op, !.elapsed = 0]
                ho == [h EXCEPT !.terminal = IF op.done THEN "done" ELSE @]
            IN
            \/ /\ CbRaises                   \* progress_callback(0.5) raises
               /\ \E e \in CallbackErrors : GRaise(e, Report(ho, 500))
               /\ loc' = l
            \/ /\ pc' = "g_poll"
               /\ hist' = AfterCb(ho, 500)
               /\ loc' = l
               /\ UNCHANGED <<result, escaped>>
       \/ \E err \in SubmitErrors :
            LET l == [loc EXCEPT !.last_error = LastError(@, err)]
                he == [h EXCEPT !.errors = Append(@, err)]
            IN
            IF ~IsBadRequest(err)
            THEN GRaise(err, he) /\ loc' = l   \* raise
            ELSE IF loc.idx < Len(loc.attempts) - 1
            THEN \/ /\ CbRaises              \* progress_callback(0.35) raises
                    /\ \E e \in CallbackErrors : GRaise(e, Report(he, 350))
                    /\ loc' = l
                 \/ /\ pc' = "g_submit"
                    /\ hist' = AfterCb(he, 350)
                    /\ loc' = [l EXCEPT !.idx = @ + 1]
                    /\ UNCHANGED <<result, escaped>>
            ELSE /\ pc' = "g_submit"
                 /\ hist' = he
                 /\ loc' = [l EXCEPT !.idx = @ + 1]
                 /\ UNCHANGED <<result, escaped>>

\* Lines 212-214: every attempt was rejected.
G_SubmitFailed ==
    /\ pc = "g_submit"
    /\ ~SubmitAttemptsLeft(loc)
    /\ Return(Failure(Msg("Video generation request failed",
                          ExtractErrorDetail(loc.last_error))), hist)
    /\ UNCHANGED <<engine, via, app, args, loc, creds, built>>

\* What client.operations.get may raise, and how long it may take.
RefreshErrors == {Exc("ServerError", <<"503">>), Exc("TimeoutError", <<"timed out">>)}
Latencies == {0, MaxLatency}

\* time.time() - started_at after time.sleep(10) and a refresh that took lat
ClockStopped(elapsed, lat) == elapsed
Clock(elapsed, lat) == elapsed + PollSleep + lat

\* time.time() - started_at > self.GENERATION_TIMEOUT
TimedOutAtBudget(elapsed) == elapsed >= GENERATION_TIMEOUT
TimedOut(elapsed) == elapsed > GENERATION_TIMEOUT

\* while not operation.done
StillRunningWithoutResponse(op) == ~op.done \/ op.response = "none"
StillRunning(op) == ~op.done

\* One iteration of _poll_operation's loop (lines 117-124).
G_Poll ==
    /\ pc = "g_poll"
    /\ StillRunning(loc.operation)
    /\ UNCHANGED <<engine, via, app, args, creds, built>>
    /\ IF TimedOut(loc.elapsed)
       THEN /\ Leave(GeminiExcept(Exc("TimeoutError", <<"Video generation timed out">>)),
                     hist)
            /\ UNCHANGED loc
       ELSE
       \/ /\ CbRaises                        \* progress_callback(0.6) raises
          /\ \E e \in CallbackErrors : GRaise(e, Report(hist, 600))
          /\ UNCHANGED loc
       \/ \E lat \in Latencies :
            LET h == [AfterCb(hist, 600) EXCEPT
                          !.polls = @ + 1,
                          !.auth = ClientAuth(creds.gemini),
                          !.polledAfterTerminal = @ \/ hist.terminal # ""]
                t == Clock(loc.elapsed, lat)
            IN
            \/ /\ \E e \in RefreshErrors : GRaise(e, [h EXCEPT !.pollFailed = TRUE])
               /\ loc' = [loc EXCEPT !.elapsed = t]
            \/ \E op \in Operations :
                 /\ loc' = [loc EXCEPT !.elapsed = t, !.operation = op]
                 /\ pc' = "g_poll"
                 /\ hist' = [h EXCEPT !.terminal = IF op.done THEN "done" ELSE @]
                 /\ UNCHANGED <<result, escaped>>

\* What client.files.download may return or raise.
DownloadedKinds == {"bytes", "file"}
DownloadedLens == {0, 1}
FileErrors == {Exc("ServerError", <<"download">>), Exc("TimeoutError", <<"timed out">>)}

\* _normalize_downloaded_video
NormalizeDownloadedVideo(kind, len) == Bytes(len)

\* `if not video_bytes` (line 233)
EmptyVideoNever(video_bytes) == FALSE
EmptyVideo(video_bytes) == video_bytes.none \/ video_bytes.len = 0

\* `response is None or not response.generated_videos`
NoVideoReturnedLax(op) == op.response = "none"
NoVideoReturned(op) == op.response = "none" \/ op.response = "empty"

\* Lines 221-239: the completed operation is turned into the result.
G_Finish ==
    /\ pc = "g_poll"
    /\ ~StillRunning(loc.operation)
    /\ UNCHANGED <<engine, via, app, args, creds, built>>
    /\ IF loc.operation.error # ""
       THEN /\ Return(Failure(Msg("Generation operation failed", <<loc.operation.error>>)),
                      hist)
            /\ UNCHANGED loc
       ELSE IF NoVideoReturned(loc.operation)
       THEN /\ Return(Failure(Msg("Generation finished but no video was returned.",
                                  NoDetail)), hist)
            /\ UNCHANGED loc
       ELSE LET h == [hist EXCEPT !.downloads = @ + 1,
                                  !.auth = ClientAuth(creds.gemini)] IN
            \/ /\ \E e \in FileErrors : GRaise(e, h)
               /\ UNCHANGED loc
            \/ \E k \in DownloadedKinds, n \in DownloadedLens :
                 LET video_bytes == NormalizeDownloadedVideo(k, n) IN
                 /\ loc' = [loc EXCEPT !.video_bytes = video_bytes]
                 /\ IF EmptyVideo(video_bytes)
                    THEN Return(Failure(Msg("Generated video file is empty.", NoDetail)), h)
                    ELSE \/ /\ CbRaises      \* progress_callback(1.0) raises
                            /\ \E e \in CallbackErrors : GRaise(e, Report(h, 1000))
                         \/ Return(Triple(TRUE, Msg("Video generated successfully",
                                                    NoDetail), video_bytes),
                                   AfterCb(h, 1000))

-----------------------------------------------------------------------------
\* Callers of the facade

\* The arguments tried.  The content arguments (image, prompt, callback, mode)
\* and the request-shaping arguments (model, duration, aspect ratio,
\* resolution) are varied separately, the others at their defaults.
Durations == 0 .. MaxDuration
GoodImage == Image(MinImageBytes, "jpeg")
GoodPrompt == Str(<<"a">>)

CallArgs(image, prompt, cb, model, duration, aspect_ratio, resolution, mode_type) ==
    [ image_bytes |-> image, prompt |-> prompt, cb |-> cb, model |-> model,
      duration |-> duration, aspect_ratio |-> aspect_ratio, resolution |-> resolution,
      mode_type |-> mode_type ]

KlingModels == {"kling-v2-6", "kling-video-o1"}     \* KlingService.MODELS
KlingInputs ==
    { CallArgs(i, p, c, "kling-v2-6", 5, "16:9", "720p", m) :
        i \in {NoneImage, GoodImage}, p \in Prompts, c \in DirectCallbacks, m \in Modes }
    \cup
    { CallArgs(GoodImage, GoodPrompt, "none", mo, d, a, "720p", "speech") :
        mo \in KlingModels, d \in Durations, a \in {"16:9", "9:16"} }

GeminiImages ==
    {NoneImage}
    \cup {Image(MinImageBytes, m) : m \in {"png", "webp", "jpeg", "gif"}}
    \cup {Image(n, "png") : n \in {0, MinImageBytes - 1, MAX_FILE_SIZE, MAX_FILE_SIZE + 1}}
GeminiInputs ==
    { CallArgs(i, GoodPrompt, "none", "veo-3.1-fast-generate-preview", 4, "16:9", "720p",
               "speech") : i \in GeminiImages }
    \cup
    { CallArgs(GoodImage, p, c, "veo-3.1-fast-generate-preview", 4, "16:9", "720p", m) :
        p \in Prompts, c \in DirectCallbacks, m \in Modes }
    \cup
    { CallArgs(GoodImage, GoodPrompt, "none", mo, d, a, r, "speech") :
        mo \in MODELS \cup {"veo-2"}, d \in {0, 1, 8, 9}, a \in {"16:9", "4:3"},
        r \in {"720p", "4k"} }

\* A fresh call: the locals, the result and the observation start empty.
Begin(e, v, a) ==
    /\ pc' = IF e = "kling" THEN "k_start" ELSE "g_start"
    /\ engine' = e
    /\ via' = v
    /\ args' = a
    /\ loc' = LocInit
    /\ result' = NoResult
    /\ escaped' = FALSE
    /\ hist' = HistInit

Idle == pc = "idle"

\* A caller invokes KlingService.generate_video.
KlingCall ==
    /\ Idle
    /\ \E a \in KlingInputs : Begin("kling", "direct", a)
    /\ UNCHANGED <<app, creds, built>>

\* A caller invokes GeminiService.generate_video.
GeminiCall ==
    /\ Idle
    /\ \E a \in GeminiInputs : Begin("gemini", "direct", a)
    /\ UNCHANGED <<app, creds, built>>

-----------------------------------------------------------------------------
\* The generate button of app.py

\* The prompt the dance branch builds from the chosen style (app.py:283).
AutoDancePrompt == <<"auto dance prompt">>

AppInput(password, admin, image, mode, prompt, eng, ks, gs, model, duration, aspect) ==
    [ password |-> password, ADMIN_PASSWORD |-> admin, image_bytes |-> image,
      selected_mode |-> mode, prompt |-> prompt, selected_engine |-> eng,
      kling_service |-> ks, gemini_service |-> gs, selected_model |-> model,
      video_duration |-> duration, aspect_ratio |-> aspect, error |-> "" ]

AppDefaultModel(eng) ==
    IF eng = "kling" THEN "kling-v2-6" ELSE "veo-3.1-generate-preview"
AppDefaultDuration(eng) == IF eng = "kling" THEN 5 ELSE 4
AppPrompts(mode) == IF mode = "speech" THEN Texts ELSE {AutoDancePrompt}

\* The widget and session values a click may find: the values the gate reads
\* and the generation options are varied separately.
AppInputs ==
    { AppInput(pw, ad, i, m, p, e, ks, gs, AppDefaultModel(e), AppDefaultDuration(e), "16:9") :
        pw \in {"", "secret", "guess"}, ad \in {"secret", ""},
        i \in {NoneImage, Image(0, "jpeg"), GoodImage},
        m \in Modes, p \in Texts \cup {AutoDancePrompt},
        e \in {"kling", "gemini"}, ks \in BOOLEAN, gs \in BOOLEAN }
    \cup
    { AppInput("secret", "secret", GoodImage, "speech", <<"a">>, e, TRUE, TRUE, mo, d, a) :
        e \in {"kling", "gemini"}, mo \in KlingModels \cup MODELS,
        d \in {4, 5, 10}, a \in {"16:9", "9:16"} }

\* The widgets offer only these combinations (app.py:233-321).
AppInputOk(i) ==
    /\ i.prompt \in AppPrompts(i.selected_mode)
    /\ i.selected_model \in (IF i.selected_engine = "kling" THEN KlingModels ELSE MODELS)
    /\ i.video_duration \in (IF i.selected_engine = "kling" THEN {5, 10} ELSE {4})

\* `not x` for bytes-or-None
Falsy(image) == image.none \/ image.size = 0

\* Lines 336-347: the message st.error shows, "" when generation goes ahead.
GateErrorNoPasswordCheck(i) ==
    IF i.password = "" THEN "enter the password"
    ELSE IF Falsy(i.image_bytes) THEN "upload a photo first"
    ELSE ""
GateError(i) ==
    IF i.password = "" THEN "enter the password"
    ELSE IF i.password # i.ADMIN_PASSWORD THEN "wrong password"
    ELSE IF Falsy(i.image_bytes) THEN "upload a photo first"
    ELSE IF i.selected_mode = "speech" /\ Strip(i.prompt) = <<>> THEN "enter the dialogue"
    ELSE IF i.selected_engine = "kling" /\ ~i.kling_service THEN "kling not connected"
    ELSE IF i.selected_engine = "gemini" /\ ~i.gemini_service THEN "gemini not connected"
    ELSE ""

\* Lines 363-372: the keyword arguments; mode_type is passed to Kling only,
\* resolution to neither (the parameters' defaults apply).
GenerateKwargs(i) ==
    CallArgs(i.image_bytes, Str(i.prompt), "ok", i.selected_model, i.video_duration,
             i.aspect_ratio, "720p",
             IF i.selected_engine = "kling" THEN i.selected_mode ELSE "speech")

AppInit ==
    AppInput("", "", NoneImage, "speech", <<>>, "kling", FALSE, FALSE, "", 0, "")

\* A click on the generate button (lines 334-374).
AppClick ==
    /\ Idle
    /\ UNCHANGED <<creds, built>>
    /\ \E i \in {x \in AppInputs : AppInputOk(x)} :
        LET err == GateError(i) IN
        /\ app' = [i EXCEPT !.error = err]
        /\ IF err # ""
           THEN /\ pc' = "done"               \* st.error(...): nothing is called
                /\ engine' = "none"
                /\ via' = "app"
                /\ args' = ArgsInit
                /\ loc' = LocInit
                /\ result' = NoResult
                /\ escaped' = FALSE
                /\ hist' = HistInit
           ELSE Begin(i.selected_engine, "app", GenerateKwargs(i))

\* The caller has consumed the returned triple; the call's locals are gone
\* (app.py:376-395 for the button handler).
Consume ==
    /\ pc = "done"
    /\ pc' = "idle"
    /\ engine' = "none"
    /\ via' = "direct"
    /\ args' = ArgsInit
    /\ loc' = LocInit
    /\ result' = NoResult
    /\ escaped' = FALSE
    /\ hist' = HistInit
    /\ app' = AppInit
    /\ UNCHANGED <<creds, built>>

-----------------------------------------------------------------------------
\* The system

CredsInit ==
    [ kling |-> [access_key |-> "AK", secret_key |-> "SK"],
      gemini |-> [api_key |-> "GK"] ]

\* No build is remembered yet.
NoBuild ==
    [ present |-> FALSE, engine |-> "none", mode_type |-> "", text |-> <<>>,
      prompt_enhanced |-> <<>>, creds |-> CredsInit ]

Init ==
    /\ pc = "idle"
    /\ engine = "none"
    /\ via = "direct"
    /\ app = AppInit
    /\ args = ArgsInit
    /\ loc = LocInit
    /\ result = NoResult
    /\ escaped = FALSE
    /\ hist = HistInit
    /\ creds = CredsInit
    /\ built = NoBuild

Next ==
    \/ KlingCall
    \/ K_Start
    \/ K_Submit
    \/ K_Poll
    \/ K_Timeout
    \/ K_Extract
    \/ K_Download
    \/ K_DownloadFailed
    \/ GeminiCall
    \/ G_Start
    \/ G_Submit
    \/ G_SubmitFailed
    \/ G_Poll
    \/ G_Finish
    \/ AppClick
    \/ Consume

Spec == Init /\ [][Next]_vars

\* generate_video is a synchronous function: once called it keeps executing,
\* every request and SDK call returning or raising.
Running == pc \notin {"idle", "done"}
CallStep ==
    \/ K_Start \/ K_Submit \/ K_Poll \/ K_Timeout \/ K_Extract \/ K_Download
    \/ K_DownloadFailed
    \/ G_Start \/ G_Submit \/ G_SubmitFailed \/ G_Poll \/ G_Finish

\* The calls followed to their end: arguments that are turned down, that make
\* the call raise, and that reach the submission, with and without a callback.
LivePrompts == {NonePrompt, Str(<<>>), GoodPrompt}
KlingLiveInputs ==
    { CallArgs(i, p, c, "kling-v2-6", 5, "16:9", "720p", "speech") :
        i \in {NoneImage, GoodImage}, p \in LivePrompts, c \in DirectCallbacks }
GeminiLiveInputs ==
    { CallArgs(i, p, c, "veo-3.1-fast-generate-preview", 4, "16:9", "720p", "speech") :
        i \in {NoneImage, Image(0, "png"), GoodImage}, p \in LivePrompts,
        c \in DirectCallbacks }

KlingCallLive ==
    /\ Idle
    /\ \E a \in KlingLiveInputs : Begin("kling", "direct", a)
    /\ UNCHANGED <<app, creds, built>>

GeminiCallLive ==
    /\ Idle
    /\ \E a \in GeminiLiveInputs : Begin("gemini", "direct", a)
    /\ UNCHANGED <<app, creds, built>>

NextLive ==
    \/ KlingCallLive
    \/ GeminiCallLive
    \/ CallStep
    \/ Consume

LiveSpec == Init /\ [][NextLive]_vars /\ WF_vars(CallStep)

-----------------------------------------------------------------------------
\* The prompt build on its own: calls are followed up to the point where the
\* enhanced prompt exists (kling.py:65-87, gemini.py:155-178), the build of an
\* earlier call is remembered, and the client may be constructed anew with
\* other credentials between calls.

\* (prompt or "").strip() / prompt.strip(): the text the build starts from
StrippedPrompt(a) == IF a.prompt.none THEN <<>> ELSE Strip(a.prompt.s)

\* The running call has built its enhanced prompt.
PromptBuilt ==
    /\ pc \notin {"idle", "k_start", "g_start"}
    /\ engine # "none"
    /\ loc.prompt_enhanced # <<>>

ThisBuild ==
    [ present |-> TRUE, engine |-> engine, mode_type |-> args.mode_type,
      text |-> StrippedPrompt(args), prompt_enhanced |-> loc.prompt_enhanced,
      creds |-> creds ]

\* The call is over for the prompt build; its build may be the one remembered.
Remember ==
    /\ pc \notin {"idle", "k_start", "g_start"}
    /\ built' \in (IF PromptBuilt THEN {built, ThisBuild} ELSE {built})
    /\ pc' = "idle"
    /\ engine' = "none"
    /\ via' = "direct"
    /\ args' = ArgsInit
    /\ loc' = LocInit
    /\ result' = NoResult
    /\ escaped' = FALSE
    /\ hist' = HistInit
    /\ UNCHANGED <<app, creds>>

\* KlingService.__init__ / GeminiService.__init__ with other key material.
Credentials ==
    { CredsInit,
      [ kling |-> [access_key |-> "AK2", secret_key |-> "SK2"],
        gemini |-> [api_key |-> "GK2"] ] }
Reconnect ==
    /\ Idle
    /\ creds' \in Credentials \ {creds}
    /\ UNCHANGED <<pc, engine, via, app, args, loc, result, escaped, hist, built>>

NextPrompt ==
    \/ KlingCall
    \/ K_Start
    \/ GeminiCall
    \/ G_Start
    \/ Remember
    \/ Reconnect

PromptSpec == Init /\ [][NextPrompt]_vars

-----------------------------------------------------------------------------
\* Properties

Returned == pc = "done" /\ engine # "none"
IsFailureTriple(r) == ~r.success /\ r.message.text # "" /\ r.video_bytes = NoneBytes
\* A prompt that is empty or whitespace only.
BlankPrompt(p) == ~p.none /\ \A i \in DOMAIN p.s : p.s[i] = " "
RequestsIssued == hist.submits + hist.polls + hist.downloads
BeforeAnyRequest == pc \in {"k_start", "g_start", "done"}

KlingTimeoutText == "kling: generation timed out (10 min)"

\* C1: in both clients, whatever the arguments are and whatever a request, an
\* SDK call or the progress callback returns or raises, no exception leaves
\* generate_video; a call in which something raised, and every failed call,
\* returns the triple (False, message, None).
C1_NoExceptionEscapes ==
    Returned =>
        /\ ~escaped
        /\ hist.raised => IsFailureTriple(result)
        /\ ~result.success => IsFailureTriple(result)

\* C1 witness: a Gemini call ended by a raising operation refresh.
C1_Witness ==
    /\ Returned /\ engine = "gemini"
    /\ hist.raised /\ hist.pollFailed
    /\ IsFailureTriple(result)

\* C2: a speech-mode call with an empty or whitespace-only prompt returns
\* success = False in both clients, and no submission, poll or download
\* request is issued in that call.
C2_SpeechEmptyPromptNoRequest ==
    (engine # "none" /\ args.mode_type = "speech" /\ BlankPrompt(args.prompt)) =>
        /\ RequestsIssued = 0
        /\ BeforeAnyRequest
        /\ pc = "done" => IsFailureTriple(result)

\* C2 witness: Gemini turns down a whitespace-only dialogue for a valid image.
C2_Witness ==
    /\ Returned /\ engine = "gemini"
    /\ args.mode_type = "speech" /\ args.prompt = Str(<<" ">>)
    /\ result.message.text = "Please enter dialogue text."
    /\ RequestsIssued = 0

\* C3: a Kling call whose status polls all answer 'processing' returns the
\* timeout failure after exactly 60 polls and issues no download request; the
\* timeout failure is never returned after fewer polls, and there is no 61st.
KlingAlwaysProcessing ==
    engine = "kling" /\ hist.polls > 0 /\ hist.pollsProcessing /\ ~hist.raised
C3_TimeoutAfterExactly60Polls ==
    /\ engine = "kling" => hist.polls <= max_polls
    /\ (KlingAlwaysProcessing /\ pc = "done") =>
            /\ result = Failure(Msg(KlingTimeoutText, NoDetail))
            /\ hist.polls = max_polls
            /\ hist.downloads = 0
    /\ (Returned /\ engine = "kling" /\ result.message.text = KlingTimeoutText) =>
            hist.polls = max_polls /\ hist.downloads = 0

\* C3 witness: the timeout result after 60 'processing' answers.
C3_Witness ==
    /\ KlingAlwaysProcessing /\ pc = "done"
    /\ hist.polls = max_polls
    /\ result.message.text = KlingTimeoutText

\* The first status poll answered 'succeed' with a video url, and nothing raised.
KlingFirstPollSucceeded ==
    /\ engine = "kling" /\ hist.polls = 1 /\ ~hist.raised
    /\ loc.poll_data.present /\ loc.poll_data.task_status = "succeed"
    /\ loc.poll_data.videos # <<>> /\ loc.poll_data.videos[1].url # ""

\* C4 as stated: when the first poll answers 'succeed' with a valid video url,
\* generate_video returns (True, message, bytes) and the download is attempted
\* at most once.
C4_Original ==
    (KlingFirstPollSucceeded /\ pc = "done") =>
        result.success /\ ~result.video_bytes.none /\ hist.downloads <= 1

\* C4 amended: when the first poll answers 'succeed' with a valid video url (and
\* nothing raises), the download is attempted at least once and at most 3
\* times; the call succeeds exactly when a download answered 200 with more than
\* 10240 bytes, which it returns; and when the first download answers so, the
\* download is attempted exactly once.
C4_SucceedOnFirstPoll ==
    (KlingFirstPollSucceeded /\ pc = "done") =>
        /\ hist.downloads \in 1 .. DownloadTries
        /\ result.success =>
              ~result.video_bytes.none /\ result.video_bytes.len > MinVideoBytes
        /\ ~result.success => hist.downloads = DownloadTries /\ IsFailureTriple(result)
        /\ hist.firstDownloadOk => result.success /\ hist.downloads = 1

\* C4 witness: success on the first download after 'succeed' on the first poll.
C4_Witness ==
    /\ KlingFirstPollSucceeded /\ pc = "done"
    /\ hist.firstDownloadOk /\ result.success /\ hist.downloads = 1

\* The third Gemini submission was accepted after two rejected ones.
GeminiThirdAccepted ==
    engine = "gemini" /\ loc.operation.present /\ Len(hist.sent) = 3
IsMinimalConfig(c) == c.duration_seconds = 0 /\ c.resolution = "absent"

\* C5: when the first two Gemini submissions raise a 400-class error and the
\* third is accepted, the call goes on to poll, it succeeds if the operation
\* completes with a non-empty video, and the accepted submission used the
\* minimal configuration and a model id different from the one of the first two.
C5_FallbackOnThirdAttempt ==
    GeminiThirdAccepted =>
        /\ IsBadRequest(loc.last_error)
        /\ pc \in {"g_poll", "done"}
        /\ hist.sent[3].model # hist.sent[1].model
        /\ hist.sent[3].model # hist.sent[2].model
        /\ hist.sent[3].model \in MODELS
        /\ IsMinimalConfig(hist.sent[3].config)
        /\ hist.sent[3].config.aspect_ratio = hist.sent[1].config.aspect_ratio
        /\ ( /\ pc = "done" /\ ~hist.raised
             /\ loc.operation.done /\ loc.operation.error = ""
             /\ loc.operation.response = "video"
             /\ ~loc.video_bytes.none /\ loc.video_bytes.len > 0 )
           => result.success /\ result.video_bytes = loc.video_bytes

\* C5 witness: a successful call whose third submission was the accepted one,
\* the first having carried a duration and a resolution.
C5_Witness ==
    /\ GeminiThirdAccepted /\ pc = "done" /\ result.success
    /\ ~IsMinimalConfig(hist.sent[1].config)

\* C6: a Gemini operation that completes without an error but with no response
\* or with no generated video yields (False, 'Generation finished but no video
\* was returned.', None), and no download is attempted.
GeminiCompletedEmpty ==
    /\ engine = "gemini" /\ loc.operation.present /\ loc.operation.done
    /\ loc.operation.error = ""
    /\ loc.operation.response \in {"none", "empty"}
C6_NoVideoReturned ==
    GeminiCompletedEmpty =>
        /\ hist.downloads = 0
        /\ (pc = "done" /\ ~hist.raised) =>
              result = Failure(Msg("Generation finished but no video was returned.",
                                   NoDetail))

\* C6 witness: the operation completed with an empty generated_videos list.
C6_Witness ==
    /\ GeminiCompletedEmpty /\ pc = "done" /\ ~hist.raised
    /\ loc.operation.response = "empty"
    /\ result.message.text = "Generation finished but no video was returned."

\* C7: with mode_type = dance and an empty prompt, Gemini puts the default
\* descriptor in place of the prompt and goes on to submit (only an invalid
\* image or a raising callback stops it first), and Kling returns the prompt
\* validation failure without submitting.
DanceEmptyPrompt == args.mode_type = "dance" /\ BlankPrompt(args.prompt)
C7_DanceEmptyPrompt ==
    /\ (engine = "gemini" /\ DanceEmptyPrompt) =>
          /\ result.message.text # "Please enter dialogue text."
          /\ pc \notin {"g_start", "done"} =>
                /\ loc.user_prompt = DefaultDance
                /\ loc.prompt_enhanced = GeminiEnhance("dance", DefaultDance)
          /\ (pc = "done" /\ hist.submits = 0) =>
                hist.raised \/ result.message.text = "Image validation failed"
    /\ (engine = "kling" /\ DanceEmptyPrompt) =>
          /\ RequestsIssued = 0
          /\ BeforeAnyRequest
          /\ pc = "done" => IsFailureTriple(result)
          /\ (pc = "done" /\ ~hist.raised) =>
                result.message.text = "kling: prompt is empty"

\* C7 witness: Gemini has submitted the default descriptor for an empty prompt.
C7_Witness ==
    /\ engine = "gemini" /\ DanceEmptyPrompt
    /\ hist.submits > 0
    /\ loc.user_prompt = DefaultDance

\* C8: the duration in Kling's submission body is the text of 5 or of 10; a
\* requested 5 or 10 is sent unchanged and a requested 7 is sent as 5.
KlingBodyBuilt == engine = "kling" /\ loc.request_body # NoBody
C8_DurationInAllowedSet ==
    KlingBodyBuilt =>
        /\ loc.request_body.duration \in {IntToStr(5), IntToStr(10)}
        /\ args.duration \in {5, 10} =>
              loc.request_body.duration = IntToStr(args.duration)
        /\ args.duration = 7 => loc.request_body.duration = IntToStr(5)

\* C8 witness: a submission made for a requested duration of 7.
C8_Witness ==
    /\ KlingBodyBuilt /\ hist.submits = 1
    /\ args.duration = 7
    /\ loc.request_body.duration = <<5>>

\* C9: the step in which a status poll (Kling) or an operation refresh (Gemini)
\* itself fails does not end the call: the loop is still running afterwards.
C9_PollFailureSwallowed ==
    [][(~hist.pollFailed /\ hist'.pollFailed) => pc' \in {"k_poll", "g_poll"}]_vars

\* C10: the button handler calls generate_video only when the password is
\* non-empty and equal to the admin password, an image is present, the prompt is
\* non-empty in speech mode and the chosen engine's service exists; with a
\* missing or wrong password nothing is called and no request is made.
PasswordOk == app.password # "" /\ app.password = app.ADMIN_PASSWORD
C10_PasswordGate ==
    via = "app" =>
        /\ engine # "none" =>
              /\ PasswordOk
              /\ ~app.image_bytes.none /\ app.image_bytes.size > 0
              /\ app.selected_mode = "speech" => ~BlankPrompt(Str(app.prompt))
              /\ engine = app.selected_engine
              /\ engine = "kling" => app.kling_service
              /\ engine = "gemini" => app.gemini_service
        /\ ~PasswordOk =>
              /\ engine = "none" /\ pc = "done"
              /\ RequestsIssued = 0

\* C10 witness: a submission made by a call the button handler started.
C10_Witness ==
    /\ via = "app" /\ engine = "gemini"
    /\ PasswordOk
    /\ hist.submits > 0

\* The running call built its prompt from the same (mode_type, stripped text)
\* as the remembered build of the same client.
SameBuildInputs ==
    /\ PromptBuilt /\ built.present
    /\ built.engine = engine
    /\ built.mode_type = args.mode_type
    /\ built.text = StrippedPrompt(args)

Abs(n) == IF n < 0 THEN -n ELSE n
NearestAllowed(d) ==
    CHOOSE a \in {ALLOWED_DURATIONS[i] : i \in DOMAIN ALLOWED_DURATIONS} :
        \A i \in DOMAIN ALLOWED_DURATIONS : Abs(d - a) <= Abs(d - ALLOWED_DURATIONS[i])

\* C12: for every requested duration outside {5, 10}, the duration in Kling's
\* submission body is the allowed value nearest to the requested one.
C12_ClampToNearest ==
    (KlingBodyBuilt /\ ~InAllowed(args.duration)) =>
        loc.request_body.duration = IntToStr(NearestAllowed(args.duration))

\* The image's first bytes announce none of the recognized formats.
UnrecognizedSignature(image) == ~image.none /\ image.magic \notin {"png", "webp", "jpeg"}

\* C13: Gemini's generate_video turns down, before any submission and with the
\* image validation failure, every image whose leading bytes match none of the
\* PNG, WEBP and JPEG signatures.
C13_UnrecognizedImageRejected ==
    (engine = "gemini" /\ UnrecognizedSignature(args.image_bytes)) =>
        /\ hist.submits = 0
        /\ pc \in {"g_start", "done"}
        /\ pc = "done" => result.message.text = "Image validation failed"

\* The Gemini submission loop is over without an accepted submission.
GeminiSubmissionOver ==
    engine = "gemini" /\ hist.submits > 0 /\ ~loc.operation.present /\ pc = "done"

\* C14: in one Gemini call at most three submissions are made, in the order
\* (selected model, full config), (selected model, minimal config), (fallback
\* model, minimal config); an error outside the bad-request class ends the call
\* at once with that error and no further submission, and a bad-request error is
\* followed by the next attempt (unless the progress callback raises), so that
\* only the third one ends the call.
C14_SubmissionAttempts ==
    engine = "gemini" =>
        /\ hist.submits = Len(hist.sent) /\ Len(hist.sent) <= 3
        /\ Len(hist.sent) >= 1 =>
              /\ hist.sent[1].model = SelectedModel(args.model)
              /\ hist.sent[1].config =
                    BuildConfig(args.duration, args.aspect_ratio, args.resolution, FALSE)
        /\ Len(hist.sent) >= 2 =>
              /\ hist.sent[2].model = SelectedModel(args.model)
              /\ IsMinimalConfig(hist.sent[2].config)
              /\ hist.sent[2].config.aspect_ratio = hist.sent[1].config.aspect_ratio
        /\ Len(hist.sent) = 3 =>
              /\ hist.sent[3].model = FallbackModel(SelectedModel(args.model))
              /\ hist.sent[3].config = hist.sent[2].config
        /\ (loc.last_error # NoError /\ ~IsBadRequest(loc.last_error)) =>
              /\ pc = "done" /\ ~loc.operation.present
              /\ IsFailureTriple(result)
              /\ loc.last_error.type # "TimeoutError" =>
                    result = Failure(Msg("Error during video generation",
                                         ExtractErrorDetail(loc.last_error)))
        /\ (GeminiSubmissionOver /\ IsBadRequest(loc.last_error)) =>
              hist.raised \/ Len(hist.sent) = 3
        /\ (pc = "g_submit" /\ hist.submits > 0) =>
              IsBadRequest(loc.last_error) /\ loc.idx = hist.submits

\* C14 witness: the first submission was turned down as a bad request and the
\* second raised a server error, which ended the call after two submissions.
C14_Witness ==
    /\ GeminiSubmissionOver /\ Len(hist.sent) = 2
    /\ loc.last_error.type = "ServerError"
    /\ result.message.text = "Error during video generation"
    /\ result.message.detail = <<"500", "INTERNAL">>

\* All three Gemini submissions raised a bad-request error.
GeminiAllAttemptsRejected ==
    /\ engine = "gemini" /\ Len(hist.errors) = 3
    /\ \A i \in 1 .. 3 : IsBadRequest(hist.errors[i])

\* C15: when all three Gemini submissions fail with bad-request errors, the
\* call returns (False, message, None), the message carries the detail
\* extracted from the third submission's error, and no poll and no download is
\* made.
C15_LastErrorDetail ==
    GeminiAllAttemptsRejected =>
        /\ pc \in {"g_submit", "done"}
        /\ hist.polls = 0 /\ hist.downloads = 0
        /\ pc = "done" =>
              result = Failure(Msg("Video generation request failed",
                                   ExtractErrorDetail(hist.errors[3])))

\* C15 witness: the third error carries a response text the first two lack,
\* and the returned detail is built from it.
C15_Witness ==
    /\ GeminiAllAttemptsRejected /\ pc = "done"
    /\ hist.errors[1] = hist.errors[2] /\ hist.errors[3] # hist.errors[2]
    /\ hist.errors[3].response_text # <<>>
    /\ result.message.detail =
          <<"400", "INVALID_ARGUMENT", " | detail: ", "unsupported config">>

GeminiTimeoutText == "Video generation timed out. Please try again."
GeminiOperationFailedText == "Generation operation failed"
\* A Gemini call whose submission was accepted and in which no SDK call and no
\* callback raised.
GeminiPolling == engine = "gemini" /\ loc.operation.present /\ ~hist.raised

KlingFailedText == "kling: generation failed"

\* C17: in Kling's poll loop (no request or callback raising), a poll that
\* observes 'succeed' ends the loop and the call goes on to the asset
\* extraction; a poll that observes 'failed' ends the call with (False, message
\* with the provider's task_status_msg, None); and the timeout failure is
\* returned exactly when 60 polls were made and none observed 'succeed' or
\* 'failed'.
C17_PollTerminalStates ==
    (engine = "kling" /\ ~hist.raised) =>
        /\ hist.terminal = "succeed" =>
              /\ pc \in {"k_extract", "k_download", "done"}
              /\ result.message.text \notin {KlingTimeoutText, KlingFailedText}
        /\ hist.terminal = "failed" =>
              /\ pc = "done"
              /\ result = Failure(Msg(KlingFailedText, <<loc.poll_data.task_status_msg>>))
              /\ loc.poll_data.task_status_msg = "nsfw"
        /\ (pc = "done" /\ result.message.text = KlingTimeoutText) =>
              hist.polls = max_polls /\ hist.terminal = ""
        /\ (pc = "done" /\ hist.polls = max_polls /\ hist.terminal = "") =>
              result = Failure(Msg(KlingTimeoutText, NoDetail))
        /\ (pc = "k_poll" /\ hist.polls > 0) => hist.terminal = ""

\* C17 witness: the 60th poll observed 'failed', and the call returned the
\* provider's failure, not the timeout.
C17_Witness ==
    /\ engine = "kling" /\ ~hist.raised /\ pc = "done"
    /\ hist.polls = max_polls /\ hist.terminal = "failed"
    /\ result.message = Msg(KlingFailedText, <<"nsfw">>)

\* C18: in both clients, once a poll has observed a terminal state (Kling
\* 'succeed' or 'failed', Gemini operation done), no further status poll is
\* issued in the call, and the last observed status stays the terminal one.
C18_StatusOnlyForward ==
    /\ ~hist.polledAfterTerminal
    /\ (engine = "kling" /\ hist.terminal # "") =>
          /\ pc # "k_poll"
          /\ loc.poll_data.task_status = hist.terminal
    /\ (engine = "gemini" /\ hist.terminal # "") =>
          /\ loc.operation.done
          /\ pc = "g_poll" => ~ENABLED G_Poll

\* C18 witness: Kling downloads after a 'processing' and then a 'succeed'
\* answer, two polls in all.
C18_Witness ==
    /\ engine = "kling" /\ hist.terminal = "succeed"
    /\ hist.polls = 2 /\ hist.downloads = 2
    /\ pc = "k_download"

KlingDownloadFailedText == "kling: video download failed"

\* C19: Kling requests the asset download at most 3 times per call; a response
\* that is not 200 or whose body is not larger than 10240 bytes is followed by
\* the next try; the first acceptable response ends the call with success and
\* its bytes; after 3 unacceptable responses the call returns (False, message,
\* None) (no request or callback raising).
C19_DownloadRetries ==
    engine = "kling" =>
        /\ hist.downloads <= DownloadTries
        /\ Len(hist.accepted) <= 1
        /\ ~hist.raised =>
              /\ pc = "k_download" =>
                    hist.accepted = <<>> /\ loc.dl_i = hist.downloads
              /\ hist.accepted # <<>> =>
                    /\ pc = "done"
                    /\ result.success
                    /\ result.video_bytes = Bytes(hist.accepted[1])
              /\ (pc = "done" /\ hist.downloads > 0 /\ hist.accepted = <<>>) =>
                    /\ hist.downloads = DownloadTries
                    /\ IsFailureTriple(result)
                    /\ result.message.text = KlingDownloadFailedText
              /\ (pc = "done" /\ result.message.text = KlingDownloadFailedText) =>
                    hist.downloads = DownloadTries

\* C19 witness: two responses that were not ready, and a third one whose bytes
\* (more than the threshold) are returned.
C19_Witness ==
    /\ engine = "kling" /\ ~hist.raised /\ pc = "done"
    /\ hist.downloads = DownloadTries
    /\ hist.accepted = <<2 * MinVideoBytes>>
    /\ result.success /\ result.video_bytes = Bytes(2 * MinVideoBytes)

\* The submission was answered (the request did not raise) with a response
\* that is not 200, or whose body carries a non-zero code or no task id.
KlingSubmissionTurnedDown ==
    /\ engine = "kling" /\ hist.submits = 1 /\ ~hist.submitted.raises
    /\ \/ hist.submitted.status_code # 200
       \/ hist.submitted.json /\ hist.submitted.code # 0
       \/ hist.submitted.json /\ hist.submitted.task_id = ""

\* C20: a Kling call makes at most one submission POST, and exactly one once it
\* polls or downloads; a submission answered with a non-200 response, a
\* non-zero code or no task id ends the call with a failure and no poll is ever
\* issued; and a download is requested only after a poll observed 'succeed'.
C20_SubmitPollDownloadOrder ==
    engine = "kling" =>
        /\ hist.submits <= 1
        /\ pc \in {"k_poll", "k_extract", "k_download"} => hist.submits = 1
        /\ hist.polls > 0 =>
              /\ hist.submits = 1
              /\ hist.submitted.status_code = 200 /\ hist.submitted.code = 0
              /\ hist.submitted.task_id # ""
        /\ KlingSubmissionTurnedDown =>
              /\ pc = "done" /\ IsFailureTriple(result)
              /\ hist.polls = 0 /\ hist.downloads = 0
        /\ hist.downloads > 0 => hist.polls > 0 /\ hist.terminal = "succeed"

\* C20 witness: a 200 answer with code 0 but no task id ended the call after
\* its one submission.
C20_Witness ==
    /\ KlingSubmissionTurnedDown /\ pc = "done"
    /\ hist.submitted.status_code = 200 /\ hist.submitted.code = 0
    /\ hist.submitted.task_id = ""
    /\ result.message.text = "kling: Task ID missing"
    /\ hist.polls = 0

\* The 'succeed' answer names no asset: no result block (missing or null), no
\* video list (missing or null), an empty list, or a first video without url.
KlingSucceedWithoutUrl ==
    /\ engine = "kling" /\ hist.terminal = "succeed"
    /\ \/ loc.poll_data.task_result # "videos"
       \/ loc.poll_data.videos = <<>>
       \/ loc.poll_data.videos[1].url = ""

\* C21: after a poll observed 'succeed', a Kling task result without result
\* block, without video list, with an empty video list or with a first video
\* that has no url makes generate_video return (False, message, None), and
\* no download request is issued.
C21_MissingUrlIsFailure ==
    KlingSucceedWithoutUrl =>
        /\ hist.downloads = 0
        /\ pc \in {"k_extract", "done"}
        /\ pc = "done" => IsFailureTriple(result)
        /\ (pc = "done" /\ ~hist.raised) =>
              result.message.text \in
                  {"kling: no generated video found", "kling: no video URL found"}

\* C21 witness: the result block is there but has no video list.
C21_Witness ==
    /\ KlingSucceedWithoutUrl /\ pc = "done"
    /\ loc.poll_data.task_result = "no_videos"
    /\ result = Failure(Msg("kling: no generated video found", NoDetail))

GeminiSucceededWithCallback ==
    engine = "gemini" /\ HasCb /\ pc = "done" /\ result.success

\* C23: a successful Gemini call with a progress callback reports 10%, 30%,
\* 50%, 60% on each poll, then 90% after the operation completed, then 100%.
C23_GeminiCheckpoints ==
    (GeminiSucceededWithCallback /\ Len(hist.sent) = 1) =>
        hist.checkpoints \in { <<100, 300, 500, 900, 1000>>,
                               <<100, 300, 500, 600, 900, 1000>> }

\* The most refreshes the 300-second budget allows at 10-second intervals:
\* one at each of 0, 10, ..., 300 seconds.
MaxRefreshes == GENERATION_TIMEOUT \div PollSleep + 1

CallBounds ==
    /\ engine = "kling" =>
          hist.submits <= 1 /\ hist.polls <= max_polls /\ hist.downloads <= DownloadTries
    /\ engine = "gemini" =>
          hist.submits <= 3 /\ hist.polls <= MaxRefreshes /\ hist.downloads <= 1

\* C24: every generate_video call ends with a result (each request and SDK call
\* returning or raising, the clock advancing with each sleep), having made at
\* most 1 submission, 60 polls and 3 downloads in Kling and at most 3
\* submissions, 31 refreshes and 1 download in Gemini.
C24_Termination ==
    /\ []CallBounds
    /\ Running ~> (pc = "done" /\ ~escaped)

\* C24 witness: a Gemini call that ended after the most refreshes the budget
\* allows.
C24_Witness ==
    /\ engine = "gemini" /\ pc = "done"
    /\ hist.polls = MaxRefreshes
    /\ hist.submits = 3

\* C25: in every triple either client returns, success = True comes with video
\* bytes that are present and non-empty (in Kling more than 10240 bytes), and
\* success = False comes with video_bytes = None.
C25_ResultShape ==
    Returned =>
        /\ result.success =>
              /\ ~result.video_bytes.none
              /\ result.video_bytes.len > 0
              /\ engine = "kling" => result.video_bytes.len > MinVideoBytes
        /\ ~result.success => result.video_bytes = NoneBytes

\* C25 witness: Gemini returns success with the one byte the download gave;
\* an empty download is a failure without bytes.
C25_Witness ==
    /\ Returned /\ engine = "gemini"
    /\ result.success /\ result.video_bytes = Bytes(1)

\* A call of generate_video has just begun.
CallBegun == pc \in {"k_start", "g_start"}

\* C26: whatever calls were made before and however they ended, the
\* credentials of both client instances equal the constructed values, every
\* authenticated request carries exactly them, and a call begins with fresh
\* locals, so that nothing of an earlier call is left for it to depend on.
C26_CredentialsUnchanged ==
    /\ creds = CredsInit
    /\ engine = "kling" => hist.auth \in {<<>>, <<"Bearer", "AK", "SK">>}
    /\ engine = "gemini" => hist.auth \in {<<>>, <<"api_key", "GK">>}
    /\ (engine = "kling" /\ hist.submits > 0) => hist.auth # <<>>
    /\ CallBegun => loc = LocInit /\ hist = HistInit /\ result = NoResult /\ ~escaped

\* C26 witness: a failed Kling call whose 60 polls all carried the constructed
\* keys.
C26_Witness ==
    /\ engine = "kling" /\ pc = "done" /\ ~result.success
    /\ hist.polls = max_polls
    /\ hist.auth = <<"Bearer", "AK", "SK">>
    /\ creds = CredsInit

\* The fixed wording of the template a backend uses for a mode.
TemplateOf(e, mode_type) ==
    IF e = "kling" THEN Head(KlingEnhance(mode_type, <<>>))
    ELSE Head(GeminiEnhance(mode_type, <<>>))

\* C27: when the application invokes generate_video, the selected backend
\* builds the template of the mode the user selected: the dance template in
\* dance mode, the speech template in speech mode, for Kling and for Gemini.
C27_SelectedModeUsed ==
    (via = "app" /\ PromptBuilt) =>
        Head(loc.prompt_enhanced) = TemplateOf(engine, app.selected_mode)

\* The poll loop's budget was exceeded: an operation was submitted, it was
\* not done, and the loop's clock passed GENERATION_TIMEOUT.
PollBudgetExceeded ==
    /\ loc.operation.present /\ ~loc.operation.done
    /\ loc.elapsed > GENERATION_TIMEOUT
    /\ ~hist.raised

\* C28: Gemini returns the "Video generation timed out" failure only when
\* the poll loop's 300-second budget was exceeded; a timeout-type error
\* raised by the submission call or by the file download is not reported as
\* the polling timeout.  Stated for calls whose progress callback does not
\* raise, so that only the client's own calls can raise.
C28_TimeoutOnlyFromPollBudget ==
    (/\ engine = "gemini" /\ pc = "done" /\ args.cb # "raises"
     /\ result.message.text = GeminiTimeoutText)
        => PollBudgetExceeded

====
